---- MODULE Spec2Model ----
(***************************************************************************)
(* A model of axon's Emitter (js/Emitter.js) and of the Property layer     *)
(* built on it (BooleanProperty.js, TProperty.js; Property and             *)
(* DerivedProperty as the specification describes them).                   *)
(*                                                                         *)
(* The program is single threaded and synchronous.  Its only interleaving  *)
(* is reentrancy: emit calls listeners, and a listener may call back into  *)
(* the Emitter (or the Property) that is notifying it.  The model keeps    *)
(* the JavaScript call stack explicitly: an "emit" activation is one       *)
(* running emit() with its loop index, a "listener" activation is the body *)
(* of one callback, which may make further calls before it returns.        *)
(***************************************************************************)
EXTENDS Integers, Sequences, FiniteSets, TLC

VARIABLES
  listeners,          \* Emitter.listeners, per emitter: the live array
  listenersToEmitTo,  \* Emitter.listenersToEmitTo, per emitter: a stack of frames
  stack,              \* the call stack: emit() and listener activations
  value,              \* Property value, per property
  initialValue,       \* Property value at construction, per property
  derivedLive,        \* whether the DerivedProperty has been constructed
  derived,            \* the DerivedProperty's fields dependencies,
                      \* dependencyListeners and dependencyValues
  multilinks,         \* the Multilinks constructed, each with its fields
                      \* dependencies, dependencyListeners and observer
  propertySet,        \* the PropertySet's fields: keys, and the Properties
                      \* and accessors it holds by name
  lastCall            \* history: the most recent API call and how it ended

vars == <<listeners, listenersToEmitTo, stack, value, initialValue,
          derivedLive, derived, multilinks, propertySet, lastCall>>

----------------------------------------------------------------------------
(* Bounds of the model *)

\* emit() activations that client code may nest
MaxDepth == 3
\* calls that callbacks make before the outermost call returns
MaxOps == 3
\* notifications that observers of Properties may nest by calling set or reset
MaxNotifyDepth == 3
\* calls that observers of Properties make before the outermost call returns
MaxObserverCalls == 1
\* Multilinks that clients construct
MaxMultilinks == 2
\* listeners that an Emitter holds when the same listener may be added again
MaxListeners == 2
\* frames in listenersToEmitTo when failed emissions leave theirs behind
MaxFrames == 2
\* calls that callbacks make before the outermost call returns, when listeners
\* may throw and the Emitter may be disposed
MaxCalls == 2
\* Properties that a PropertySet creates
MaxProperties == 3

----------------------------------------------------------------------------
(* JavaScript values: a type tag (what typeof yields) and a payload *)

Num(n) == [type |-> "number", val |-> n]
\* true is Bool(1) and false is Bool(0): the payload is the number the value
\* converts to in arithmetic
Bool(b) == [type |-> "boolean", val |-> b]
Undefined == [type |-> "undefined", val |-> 0]
\* An array held in a field, and the null that replaces it on disposal
Array(s) == [type |-> "array", val |-> s]
Null == [type |-> "null", val |-> <<>>]

Range(s) == {s[k] : k \in DOMAIN s}
IndexOf(s, x) == IF x \in Range(s) THEN CHOOSE k \in DOMAIN s : s[k] = x /\ \A j \in 1..(k - 1) : s[j] # x ELSE 0
Splice(s, k) == [j \in 1..(Len(s) - 1) |-> IF j < k THEN s[j] ELSE s[j + 1]]
Pop(s) == SubSeq(s, 1, Len(s) - 1)
\* array.indexOf( x ): from 0, and -1 if x is not in the array
indexOf(s, x) == IndexOf(s, x) - 1
\* array.splice( index, 1 ): a negative index counts from the end of the array
splice(s, index) ==
  LET start == IF index >= 0 THEN index ELSE IF Len(s) + index < 0 THEN 0 ELSE Len(s) + index
  IN IF start >= Len(s) THEN s ELSE Splice(s, start + 1)
IsPrefix(s, t) == Len(s) <= Len(t) /\ \A k \in DOMAIN s : s[k] = t[k]

----------------------------------------------------------------------------
(* Emitter: the frames of listenersToEmitTo.  emit pushes this.listeners     *)
(* itself, so an undefended frame is the live array; defendCallbacks         *)
(* replaces it by a copy marked defended.                                    *)

LiveFrame == [defended |-> FALSE, list |-> <<>>]
DefendedFrame(ls) == [defended |-> TRUE, list |-> ls]

\* The array a frame denotes, given the live array
FrameArray(f, live) == IF f.defended THEN f.list ELSE live

\* this.listenersToEmitTo[ k ] of emitter e, as the array it is now
FrameList(e, k) == FrameArray(listenersToEmitTo[e][k], listeners[e])

\* A faulty variant of defendFrom: the frame is marked but keeps the live array
defendFromNoCopy(frames, live, i) == frames

\* A faulty variant of defendFrom: only the frame at index i is defended
defendFromTop(frames, live, i) ==
  IF i = 0 THEN frames ELSE [frames EXCEPT ![i] = DefendedFrame(live)]

RECURSIVE defendFrom(_, _, _)
\* The loop of defendCallbacks, from index i down to the first defended frame
defendFrom(frames, live, i) ==
  IF i = 0 THEN frames
  ELSE IF frames[i].defended THEN frames
  ELSE defendFrom([frames EXCEPT ![i] = DefendedFrame(live)], live, i - 1)

defendCallbacks(frames, live) == defendFrom(frames, live, Len(frames))

\* The Emitter's two arrays, as one record
EmitterOf(e) == [ls |-> listeners[e], fr |-> listenersToEmitTo[e]]

\* addListener past its assertion: defend the frames, then push
addListener(em, l) == [ls |-> Append(em.ls, l), fr |-> defendCallbacks(em.fr, em.ls)]

\* A faulty variant of removeListener: the frames are defended after the splice
removeListenerThenDefend(em, l) ==
  LET ls == Splice(em.ls, IndexOf(em.ls, l))
  IN [ls |-> ls, fr |-> defendCallbacks(em.fr, ls)]

\* A faulty variant of removeListener: the splice is made on a copy
removeListenerFromCopy(em, l) == [ls |-> em.ls, fr |-> defendCallbacks(em.fr, em.ls)]

\* removeListener past its assertion: defend the frames, then splice
removeListener(em, l) ==
  LET index == indexOf(em.ls, l)
  IN [ls |-> splice(em.ls, index), fr |-> defendCallbacks(em.fr, em.ls)]

RECURSIVE removeAllListeners(_)
\* removeAllListeners: removeListener( listeners[ 0 ] ) until none is left
removeAllListeners(em) ==
  IF Len(em.ls) > 0 THEN removeAllListeners(removeListener(em, em.ls[1])) ELSE em

----------------------------------------------------------------------------
(* The call stack *)

EmitterIds == DOMAIN listeners

\* The listeners client code registers on a bare Emitter
Callbacks == {"l1", "l2", "l3"}

\* The argument lists of emit() and emit2( arg0, arg1 )
ArgLists == {<<>>, <<Num(0), Num(1)>>}

\* One running emit(): its frame index, loop index and arguments.  start,
\* called, nested, mutated and stale are history: the listeners when it began,
\* those it has invoked, whether an emission ran to its end inside it, whether
\* the listener list has changed since it began, and whether the Property it
\* notifies for has been given another value since it began.
EmitActivation(e, lastEntry, args) ==
  [kind |-> "emit", e |-> e, lastEntry |-> lastEntry, i |-> 0, lis |-> "none",
   args |-> args, ops |-> 0, via |-> "emit", ran |-> FALSE,
   start |-> listeners[e], called |-> <<>>, nested |-> FALSE, mutated |-> FALSE, stale |-> FALSE]

\* One running callback: the listener and the arguments it was called with
ListenerActivation(e, lis, args, via) ==
  [kind |-> "listener", e |-> e, lastEntry |-> 0, i |-> 0, lis |-> lis,
   args |-> args, ops |-> 0, via |-> via, ran |-> FALSE,
   start |-> <<>>, called |-> <<>>, nested |-> FALSE, mutated |-> FALSE, stale |-> FALSE]

Top == stack[Len(stack)]

EmitDepth == Cardinality({k \in DOMAIN stack : stack[k].kind = "emit"})

\* Code that may call the API now: top-level code, or a client callback that is
\* running and has calls left
CallerReadyWithin(calls) ==
  IF stack = <<>> THEN TRUE
  ELSE Top.kind = "listener" /\ Top.lis \in Callbacks /\ stack[1].ops < calls

CallerReady == CallerReadyWithin(MaxOps)

\* The stack after the running callback (if any) has made one more call; the
\* count is kept in the outermost activation
Charged == IF stack = <<>> THEN stack ELSE [stack EXCEPT ![1].ops = @ + 1]

\* History: every emission of emitter e in progress has seen a mutation
Mutated(stk, e) ==
  [k \in DOMAIN stk |->
     IF stk[k].kind = "emit" /\ stk[k].e = e THEN [stk[k] EXCEPT !.mutated = TRUE] ELSE stk[k]]

Call(op, p, lis, v, err) == [op |-> op, p |-> p, lis |-> lis, v |-> v, err |-> err]

\* Multilinks and the PropertySet are left alone
ObjectsUnchanged == UNCHANGED <<multilinks, propertySet>>

PropertyUnchanged ==
  /\ UNCHANGED <<value, initialValue, derivedLive, derived>>
  /\ ObjectsUnchanged

----------------------------------------------------------------------------
(* Emitter operations, called by top-level code or from inside a listener *)

\* A faulty variant of the loop's start: the frame pushed is the caller's frame
EmitFrameOfCaller(e) ==
  IF listenersToEmitTo[e] = <<>> THEN LiveFrame
  ELSE DefendedFrame(FrameList(e, Len(listenersToEmitTo[e])))

\* this.listenersToEmitTo.push( this.listeners )
EmitFrame(e) == LiveFrame

\* emit, emit1 .. emit4 up to the loop: push the frame, lastEntry is its index
Emit(e, args) ==
  /\ CallerReady
  /\ EmitDepth < MaxDepth
  /\ listenersToEmitTo' = [listenersToEmitTo EXCEPT ![e] = Append(@, EmitFrame(e))]
  /\ stack' = Append(Charged, EmitActivation(e, Len(listenersToEmitTo[e]) + 1, args))
  /\ lastCall' = Call("emit", e, "none", Undefined, "none")
  /\ UNCHANGED listeners
  /\ PropertyUnchanged

\* A faulty variant of LoopContinues: the loop stops one listener short
LoopContinuesShort(a) == a.i < Len(FrameList(a.e, a.lastEntry)) - 1

\* The loop's test: i < this.listenersToEmitTo[ lastEntry ].length
LoopContinues(a) == a.i < Len(FrameList(a.e, a.lastEntry))

\* A faulty variant of CallArgs: the two arguments are handed over in the wrong order
CallArgsSwapped(a) == IF Len(a.args) = 2 THEN <<a.args[2], a.args[1]>> ELSE a.args

\* The arguments the loop hands to the listener: ( arg0, arg1 ) as emitted
CallArgs(a) == a.args

\* The loop's body: this.listenersToEmitTo[ lastEntry ][ i ]( args )
EmitInvoke ==
  /\ stack # <<>>
  /\ Top.kind = "emit"
  /\ LoopContinues(Top)
  /\ LET lis == FrameList(Top.e, Top.lastEntry)[Top.i + 1]
     IN stack' = Append([stack EXCEPT ![Len(stack)].called = Append(@, lis)],
                        ListenerActivation(Top.e, lis, CallArgs(Top), "emit"))
  /\ UNCHANGED <<listeners, listenersToEmitTo, lastCall>>
  /\ PropertyUnchanged

\* A faulty variant of NextIndex: the loop index is shared with the emit that ran
\* inside the listener, which left it at the end of its own loop
NextIndexShared(a) == IF a.nested THEN Len(listeners[a.e]) ELSE a.i + 1

\* The loop's i++ once the listener has returned
NextIndex(a) == a.i + 1

\* A callback returns to the loop (or to link) that called it: a client's at
\* any time, a DerivedProperty's listener once it has recomputed
ListenerReturn ==
  /\ stack # <<>>
  /\ Top.kind = "listener"
  /\ Top.lis \in Callbacks \/ Top.ran
  /\ stack' = IF Top.via = "emit"
              THEN [Pop(stack) EXCEPT ![Len(stack) - 1].i = NextIndex(stack[Len(stack) - 1])]
              ELSE Pop(stack)
  /\ UNCHANGED <<listeners, listenersToEmitTo, lastCall>>
  /\ PropertyUnchanged

\* The loop has ended: this.listenersToEmitTo.pop(), and emit returns
EmitEnd ==
  /\ stack # <<>>
  /\ Top.kind = "emit"
  /\ ~LoopContinues(Top)
  /\ listenersToEmitTo' = [listenersToEmitTo EXCEPT ![Top.e] = Pop(@)]
  /\ stack' = LET rest == Pop(stack)
              IN [k \in DOMAIN rest |->
                    IF k = Len(rest) - 1 /\ rest[k].kind = "emit" /\ rest[k + 1].via = "emit"
                    THEN [rest[k] EXCEPT !.nested = TRUE]
                    ELSE rest[k]]
  /\ UNCHANGED <<listeners, lastCall>>
  /\ PropertyUnchanged

\* addListener: the assertion, then the push
AddListener(e, l) ==
  /\ CallerReady
  /\ IF l \in Range(listeners[e])
     THEN /\ lastCall' = Call("addListener", e, l, Undefined, "DuplicateListener")
          /\ stack' = Charged
          /\ UNCHANGED <<listeners, listenersToEmitTo>>
     ELSE LET em == addListener(EmitterOf(e), l)
          IN /\ listeners' = [listeners EXCEPT ![e] = em.ls]
             /\ listenersToEmitTo' = [listenersToEmitTo EXCEPT ![e] = em.fr]
             /\ stack' = Mutated(Charged, e)
             /\ lastCall' = Call("addListener", e, l, Undefined, "none")
  /\ PropertyUnchanged

\* removeListener: the assertion, then the splice
RemoveListener(e, l) ==
  /\ CallerReady
  /\ IF l \notin Range(listeners[e])
     THEN /\ lastCall' = Call("removeListener", e, l, Undefined, "UnknownListener")
          /\ stack' = Charged
          /\ UNCHANGED <<listeners, listenersToEmitTo>>
     ELSE LET em == removeListener(EmitterOf(e), l)
          IN /\ listeners' = [listeners EXCEPT ![e] = em.ls]
             /\ listenersToEmitTo' = [listenersToEmitTo EXCEPT ![e] = em.fr]
             /\ stack' = Mutated(Charged, e)
             /\ lastCall' = Call("removeListener", e, l, Undefined, "none")
  /\ PropertyUnchanged

\* removeAllListeners
RemoveAllListeners(e) ==
  /\ CallerReady
  /\ LET em == removeAllListeners(EmitterOf(e))
     IN /\ listeners' = [listeners EXCEPT ![e] = em.ls]
        /\ listenersToEmitTo' = [listenersToEmitTo EXCEPT ![e] = em.fr]
        /\ stack' = IF listeners[e] = <<>> THEN Charged ELSE Mutated(Charged, e)
  /\ lastCall' = Call("removeAllListeners", e, "none", Undefined, "none")
  /\ PropertyUnchanged

----------------------------------------------------------------------------
(* A bare Emitter and its client code *)

NoValues == [p \in {"a"} |-> Undefined]

\* No PropertySet: no keys, and no name has a Property or an accessor
NoPropertySet == [keys |-> <<>>, properties |-> <<>>, accessors |-> <<>>]

\* No DerivedProperty: there are no fields yet, or they have been set to null
NoDerived == [dependencies |-> Null, dependencyListeners |-> Null, dependencyValues |-> Null]

Init ==
  /\ listeners = [e \in {"E"} |-> <<>>]
  /\ listenersToEmitTo = [e \in {"E"} |-> <<>>]
  /\ stack = <<>>
  /\ value = NoValues
  /\ initialValue = NoValues
  /\ derivedLive = FALSE
  /\ derived = NoDerived
  /\ multilinks = <<>>
  /\ propertySet = NoPropertySet
  /\ lastCall = Call("new", "E", "none", Undefined, "none")

Next ==
  \/ \E e \in EmitterIds, args \in ArgLists : Emit(e, args)
  \/ EmitInvoke
  \/ ListenerReturn
  \/ EmitEnd
  \/ \E e \in EmitterIds, l \in Callbacks : AddListener(e, l)
  \/ \E e \in EmitterIds, l \in Callbacks : RemoveListener(e, l)
  \/ \E e \in EmitterIds : RemoveAllListeners(e)

Spec == Init /\ [][Next]_vars

----------------------------------------------------------------------------
(* What the emissions in progress look like *)

EmitIdx == {k \in DOMAIN stack : stack[k].kind = "emit"}

\* The array emission k iterates, as it is now
FrameOf(k) == FrameList(stack[k].e, stack[k].lastEntry)

\* Emission k has left its loop and is about to pop its frame and return
Complete(k) == k = Len(stack) /\ stack[k].kind = "emit" /\ ~LoopContinues(stack[k])

\* The listeners emission k has still to invoke
Remaining(k) == SubSeq(FrameOf(k), Len(stack[k].called) + 1, Len(FrameOf(k)))

\* C1: every emission, whatever its listeners do meanwhile (addListener,
\* removeListener, removeAllListeners, a nested emit), invokes exactly the
\* listeners registered when it began, each once, in insertion order: what it
\* has invoked so far is a prefix of that list, and all of it once the loop ends.
C1_EmitInvokesListenersAtStart ==
  \A k \in EmitIdx :
    /\ IsPrefix(stack[k].called, stack[k].start)
    /\ \A x \in DOMAIN stack[k].called : \A y \in DOMAIN stack[k].called :
         stack[k].called[x] = stack[k].called[y] => x = y
    /\ Len(stack[k].called) = stack[k].i + (IF k < Len(stack) THEN 1 ELSE 0)
    /\ Complete(k) => stack[k].called = stack[k].start

\* C1's case: an emission over three listeners has ended its loop although its
\* listeners changed the list and ran a nested emit meanwhile
C1_Witness ==
  \E k \in EmitIdx :
    /\ Complete(k)
    /\ stack[k].mutated /\ stack[k].nested
    /\ Len(stack[k].start) = 3
    /\ listeners[stack[k].e] # stack[k].start

\* C2: removeListener of a registered listener, called by a listener during an
\* emission, does not fail, and a listener that was registered when the emission
\* began and has been removed since has been invoked by it or is still ahead of
\* it; once the loop ends it has been invoked.
C2_RemoveDuringEmit ==
  /\ (lastCall.op = "removeListener" /\ lastCall.err # "none")
       => lastCall.lis \notin Range(listeners[lastCall.p])
  /\ \A k \in EmitIdx :
       \A l \in Range(stack[k].start) \ Range(listeners[stack[k].e]) :
         /\ l \in Range(stack[k].called) \cup Range(Remaining(k))
         /\ Complete(k) => l \in Range(stack[k].called)

\* C2's case: a listener has just removed itself without error during an
\* emission that has another listener, since removed too, still to invoke
C2_Witness ==
  /\ Len(stack) = 2
  /\ stack[1].kind = "emit" /\ stack[2].kind = "listener"
  /\ lastCall.op = "removeListener" /\ lastCall.err = "none"
  /\ lastCall.lis = stack[2].lis
  /\ listeners[stack[1].e] = <<>>
  /\ Len(Remaining(1)) = 2

\* C3: of two emissions in progress on one Emitter, the outer k and the nested
\* m, a listener added in between is in m's list and not in k's, and is invoked
\* by m and not by k; a listener removed in between is in k's list and not in
\* m's, and is not invoked by m.  Every emission iterates the list as it was
\* when it began.
C3_LaterEmitUsesMutatedList ==
  /\ \A k \in EmitIdx : FrameOf(k) = stack[k].start
  /\ \A k \in EmitIdx : \A m \in EmitIdx :
       (k < m /\ stack[k].e = stack[m].e) =>
         \A l \in Range(stack[k].start) \cup Range(stack[m].start) :
           /\ (l \notin Range(stack[k].start))
                => /\ l \notin Range(stack[k].called) \cup Range(Remaining(k))
                   /\ l \in Range(stack[m].called) \cup Range(Remaining(m))
                   /\ Complete(m) => l \in Range(stack[m].called)
           /\ (l \notin Range(stack[m].start))
                => /\ l \in Range(stack[k].called) \cup Range(Remaining(k))
                   /\ l \notin Range(stack[m].called) \cup Range(Remaining(m))

\* C3's case: a nested emission has ended its loop; before it began, a listener
\* of the outer emission was removed and a new one was added
C3_Witness ==
  \E k \in EmitIdx : \E m \in EmitIdx :
    /\ k < m /\ stack[k].e = stack[m].e
    /\ Complete(m)
    /\ Range(stack[k].start) \ Range(stack[m].start) # {}
    /\ Range(stack[m].start) \ Range(stack[k].start) # {}

\* What one step does to emission k, which is on the stack before and after
C4_Step(k) ==
  /\ (k < Len(stack) - 1) => (stack'[k].i = stack[k].i /\ stack'[k].called = stack[k].called)
  /\ (stack'[k].i # stack[k].i)
       => /\ stack'[k].i = stack[k].i + 1
          /\ Len(stack) = k + 1 /\ Len(stack') = k
  /\ (stack'[k].called # stack[k].called)
       => /\ k = Len(stack)
          /\ stack'[k].called = Append(stack[k].called, stack[k].start[stack[k].i + 1])

\* C4: while an emission runs inside a listener of emission k, k neither
\* advances nor invokes anything; an emission returns only when it has invoked
\* all of its listeners; and k's index moves only by one, when the listener it
\* invoked returns, so that k goes on with the listener after that one.
C4_NestedEmitRunsFirst ==
  /\ [][\A k \in EmitIdx : k \in DOMAIN stack' => C4_Step(k)]_vars
  /\ [][(stack # <<>> /\ Len(stack') < Len(stack) /\ Top.kind = "emit")
          => Top.called = Top.start]_vars
  /\ [](\A k \in EmitIdx :
          k < Len(stack) => /\ stack[k + 1].kind = "listener"
                            /\ stack[k + 1].lis = stack[k].start[stack[k].i + 1])

\* C4's case: the outer emission, in whose first listener an emission ran to
\* its end, is running its second listener
C4_Witness ==
  /\ Len(stack) = 2
  /\ stack[1].kind = "emit" /\ stack[1].nested
  /\ stack[1].i = 1 /\ Len(stack[1].start) >= 2
  /\ stack[2].kind = "listener" /\ stack[2].lis = stack[1].start[2]

----------------------------------------------------------------------------
(* Properties.  a is a Property, b is a BooleanProperty, d is the          *)
(* DerivedProperty over [ a, b ] with the derivation a + b.  Each Property *)
(* notifies through its own Emitter, changedEmitter, which the model names *)
(* like the Property.  Observers are client callbacks: they may call the   *)
(* Properties' methods while they run.                                     *)

BaseProperties == {"a", "b"}
DerivedProperties == {"d"}
Dependencies == <<"a", "b">>

\* The callbacks clients link to Properties
Observers == {"l1", "l2"}

\* The Properties clients link observers to
Observed == {"a", "d"}

\* The listener the DerivedProperty installs on a dependency
DependencyListener(p) == IF p = "a" THEN "da" ELSE "db"
DependencyListeners == {DependencyListener(p) : p \in Range(Dependencies)}

\* The values clients pass to set: numbers to the Property, booleans and a
\* number to the BooleanProperty
InputValues(p) == IF p = "b" THEN {Bool(0), Bool(1), Num(0)} ELSE {Num(0), Num(1)}

\* An observer that may call a Property's method now
ObserverReady == CallerReadyWithin(MaxObserverCalls)

\* A faulty variant of isBoolean: truthy and falsy values pass
isBooleanLoose(v) == v.val \in {0, 1}

\* BooleanProperty's isValidValue
isBoolean(v) == v.type = "boolean"

\* options.isValidValue of each Property: isBoolean for the BooleanProperty,
\* none for the plain Property
isValidValue(p, v) == IF p = "b" THEN isBoolean(v) ELSE TRUE

\* The DerivedProperties made by DerivedProperty.and, DerivedProperty.or and
\* DerivedProperty.valueEquals, and the Properties they are made over
Combinators == {"and", "or", "eq"}
CombinatorDependencies(q) == IF q = "eq" THEN <<"pA", "pB">> ELSE <<"pA", "pB", "pC">>

\* Combinator q has been constructed: its value is never undefined
CombinatorLive(q) == q \in DOMAIN value /\ value[q] # Undefined

\* and and or require the values of their dependencies to be boolean
RequiresBoolean(p) ==
  \E q \in {"and", "or"} : CombinatorLive(q) /\ p \in Range(CombinatorDependencies(q))

\* The validator and and or put on a dependency
isValidDependencyValue(p, v) == RequiresBoolean(p) => isBoolean(v)

\* The default equality test of a Property: strict equality
areEqual(x, y) == x = y

\* function( a, b ) { return a + b; } on numbers and booleans
Derivation(x, y) == Num(x.val + y.val)

\* The derivation applied to the dependencies' current values, in their order
Derived == Derivation(value[Dependencies[1]], value[Dependencies[2]])

\* The dependencies' current values, in their order
DependencyValues == [k \in DOMAIN Dependencies |-> value[Dependencies[k]]]

\* The Properties that exist
LiveProperties == BaseProperties \cup (IF derivedLive THEN DerivedProperties ELSE {})

\* History: every notification in progress for Property p is out of date
Stale(stk, p) ==
  [k \in DOMAIN stk |->
     IF stk[k].kind = "emit" /\ stk[k].e = p THEN [stk[k] EXCEPT !.stale = TRUE] ELSE stk[k]]

\* A faulty variant of Committed: the value is stored only after the notification
CommittedLate(v, old) == old

\* The value a set stores before it notifies
Committed(v, old) == v

\* Store v in Property p and notify: changedEmitter.emit2( v, old ).  stk is
\* the caller's stack.
StoreAndNotify(p, v, stk) ==
  /\ value' = [value EXCEPT ![p] = Committed(v, value[p])]
  /\ listenersToEmitTo' = [listenersToEmitTo EXCEPT ![p] = Append(@, EmitFrame(p))]
  /\ stack' = Append(Stale(stk, p),
                     EmitActivation(p, Len(listenersToEmitTo[p]) + 1, <<v, value[p]>>))
  /\ UNCHANGED listeners

\* Property.set: validate, compare, then store and notify
PropertySet(op, p, v) ==
  /\ ObserverReady
  /\ EmitDepth < MaxNotifyDepth
  /\ IF ~(isValidValue(p, v) /\ isValidDependencyValue(p, v))
     THEN /\ lastCall' = Call(op, p, "none", v, "ValidationError")
          /\ stack' = Charged
          /\ UNCHANGED <<listeners, listenersToEmitTo, value>>
     ELSE /\ lastCall' = Call(op, p, "none", v, "none")
          /\ IF areEqual(v, value[p])
             THEN /\ stack' = Charged
                  /\ UNCHANGED <<listeners, listenersToEmitTo, value>>
             ELSE StoreAndNotify(p, v, Charged)
  /\ UNCHANGED <<initialValue, derivedLive, derived>>
  /\ ObjectsUnchanged

\* A faulty variant of ResetValue: reset restores the type's default value
ResetValueDefault(p) == IF p = "b" THEN Bool(0) ELSE Num(0)

\* The value reset restores
ResetValue(p) == initialValue[p]

\* Property.reset: set( initialValue )
PropertyReset(p) == PropertySet("reset", p, ResetValue(p))

\* TProperty's setValue: this.instance.set( value )
setValue(p, v) == PropertySet("set", p, v)

\* A faulty variant of ImmediateCall: link does not call the observer
ImmediateCallNone(p, o, stk) == stk

\* link's immediate callback: observer( value, undefined )
ImmediateCall(p, o, stk) == Append(stk, ListenerActivation(p, o, <<value[p], Undefined>>, "link"))

\* Property.link and Property.lazyLink: changedEmitter.addListener( observer ),
\* and for link the immediate callback
PropertyLink(op, p, o) ==
  /\ ObserverReady
  /\ IF o \in Range(listeners[p])
     THEN /\ lastCall' = Call(op, p, o, Undefined, "DuplicateListener")
          /\ stack' = Charged
          /\ UNCHANGED <<listeners, listenersToEmitTo>>
     ELSE LET em == addListener(EmitterOf(p), o)
          IN /\ listeners' = [listeners EXCEPT ![p] = em.ls]
             /\ listenersToEmitTo' = [listenersToEmitTo EXCEPT ![p] = em.fr]
             /\ stack' = IF op = "link" THEN ImmediateCall(p, o, Mutated(Charged, p))
                         ELSE Mutated(Charged, p)
             /\ lastCall' = Call(op, p, o, Undefined, "none")
  /\ PropertyUnchanged

\* TProperty's link: this.instance.link( listener )
link(p, o) == PropertyLink("link", p, o)

\* Property.lazyLink
lazyLink(p, o) == PropertyLink("lazyLink", p, o)

\* Property.unlink: changedEmitter.removeListener( observer ), reached through
\* TProperty's unlink
unlink(p, o) ==
  /\ ObserverReady
  /\ IF o \notin Range(listeners[p])
     THEN /\ lastCall' = Call("unlink", p, o, Undefined, "UnknownListener")
          /\ stack' = Charged
          /\ UNCHANGED <<listeners, listenersToEmitTo>>
     ELSE LET em == removeListener(EmitterOf(p), o)
          IN /\ listeners' = [listeners EXCEPT ![p] = em.ls]
             /\ listenersToEmitTo' = [listenersToEmitTo EXCEPT ![p] = em.fr]
             /\ stack' = Mutated(Charged, p)
             /\ lastCall' = Call("unlink", p, o, Undefined, "none")
  /\ PropertyUnchanged

\* new DerivedProperty( [ a, b ], derivation ): one lazy listener on every
\* dependency, and the first computation of the value.  The DerivedProperty has
\* no listener of its own yet, so that first computation notifies nobody.
NewDerivedProperty ==
  /\ ObserverReady
  /\ ~derivedLive
  /\ LET ems == [p \in Range(Dependencies) |-> addListener(EmitterOf(p), DependencyListener(p))]
     IN /\ listeners' = [p \in DOMAIN listeners |->
                           IF p \in Range(Dependencies) THEN ems[p].ls ELSE listeners[p]]
        /\ listenersToEmitTo' = [p \in DOMAIN listenersToEmitTo |->
                           IF p \in Range(Dependencies) THEN ems[p].fr ELSE listenersToEmitTo[p]]
  /\ value' = [value EXCEPT !["d"] = Derived]
  /\ initialValue' = [initialValue EXCEPT !["d"] = Derived]
  /\ derivedLive' = TRUE
  /\ derived' = [dependencies |-> Array(Dependencies),
                 dependencyListeners |-> Array([k \in DOMAIN Dependencies |-> DependencyListener(Dependencies[k])]),
                 dependencyValues |-> Array(DependencyValues)]
  /\ stack' = LET stk == Charged
              IN [k \in DOMAIN stk |->
                    IF stk[k].kind = "emit" /\ stk[k].e \in Range(Dependencies)
                    THEN [stk[k] EXCEPT !.mutated = TRUE] ELSE stk[k]]
  /\ lastCall' = Call("new", "d", "none", Undefined, "none")
  /\ ObjectsUnchanged

\* An exception thrown by a listener of the library's own: it unwinds the calls
\* in progress up to the client callback whose call led to it (client callbacks
\* handle the errors of the calls they make), or all of them.  emit has no
\* finally, so the frames of the emissions it passes through are not popped.
Unwound(stk) ==
  LET catchers == {k \in 1..(Len(stk) - 1) : stk[k].kind = "listener" /\ stk[k].lis \in Callbacks}
  IN IF catchers = {} THEN <<>>
     ELSE SubSeq(stk, 1, CHOOSE k \in catchers : \A j \in catchers : j <= k)

Thrown(p, lis, err) ==
  /\ stack' = Unwound(stack)
  /\ lastCall' = Call("listener", p, lis, Undefined, err)

\* The DerivedProperty's listener on a dependency: it computes the derivation
\* from the dependencies' current values and stores it through Property's own
\* set, which notifies if the value differs.  Invoked after the disposal (by a
\* notification that began before it) it finds its fields null and fails.
DerivedRecompute ==
  /\ stack # <<>>
  /\ Top.kind = "listener"
  /\ Top.lis \in DependencyListeners
  /\ ~Top.ran
  /\ IF derived.dependencyValues = Null
     THEN /\ Thrown(Top.e, Top.lis, "TypeError")
          /\ UNCHANGED <<listeners, listenersToEmitTo, value, derived>>
     ELSE /\ LET stk == [stack EXCEPT ![Len(stack)].ran = TRUE]
             IN IF areEqual(Derived, value["d"])
                THEN /\ stack' = stk
                     /\ UNCHANGED <<listeners, listenersToEmitTo, value>>
                ELSE StoreAndNotify("d", Derived, stk)
          /\ derived' = [derived EXCEPT !.dependencyValues = Array(DependencyValues)]
          /\ UNCHANGED lastCall
  /\ UNCHANGED <<initialValue, derivedLive>>
  /\ ObjectsUnchanged

PropInit ==
  /\ listeners = [p \in BaseProperties \cup DerivedProperties |-> <<>>]
  /\ listenersToEmitTo = [p \in BaseProperties \cup DerivedProperties |-> <<>>]
  /\ stack = <<>>
  /\ value = [p \in BaseProperties \cup DerivedProperties |->
                IF p = "a" THEN Num(1) ELSE IF p = "b" THEN Bool(1) ELSE Undefined]
  /\ initialValue = value
  /\ derivedLive = FALSE
  /\ derived = NoDerived
  /\ multilinks = <<>>
  /\ propertySet = NoPropertySet
  /\ lastCall = Call("new", "a", "none", Undefined, "none")

PropNext ==
  \/ \E p \in BaseProperties : \E v \in InputValues(p) : setValue(p, v)
  \/ \E p \in BaseProperties : PropertyReset(p)
  \/ \E p \in LiveProperties \cap Observed, o \in Observers : link(p, o)
  \/ \E p \in LiveProperties \cap Observed, o \in Observers : lazyLink(p, o)
  \/ \E p \in LiveProperties \cap Observed, o \in Observers : unlink(p, o)
  \/ NewDerivedProperty
  \/ DerivedRecompute
  \/ EmitInvoke
  \/ ListenerReturn
  \/ EmitEnd

PropSpec == PropInit /\ [][PropNext]_vars

----------------------------------------------------------------------------
(* Claims about Properties *)

\* A step that is a call of a Property's method
CallStep(op) == lastCall' # lastCall /\ lastCall'.op = op

\* The step pushes one notification of Property p with payload ( v, old )
Notifies(p, v, old) ==
  /\ Len(stack') = Len(stack) + 1
  /\ stack'[Len(stack')].kind = "emit"
  /\ stack'[Len(stack')].e = p
  /\ stack'[Len(stack')].args = <<v, old>>
  /\ stack'[Len(stack')].i = 0
  /\ \A q \in DOMAIN listenersToEmitTo :
       Len(listenersToEmitTo'[q]) = Len(listenersToEmitTo[q]) + (IF q = p THEN 1 ELSE 0)

\* The step pushes no notification and changes no Property and no Emitter
NoEffect ==
  /\ Len(stack') = Len(stack)
  /\ UNCHANGED <<value, initialValue, listeners, listenersToEmitTo>>

\* C5: a set(v) that passes validation, with v different from the current value,
\* stores v and starts exactly one notification, with payload (v, previous
\* value), which every listener it invokes receives; with v equal to the current
\* value it changes nothing and starts no notification.
C5_SetStoresAndNotifiesOnce ==
  /\ [][(CallStep("set") /\ lastCall'.err = "none") =>
          IF lastCall'.v = value[lastCall'.p]
          THEN NoEffect
          ELSE /\ value' = [value EXCEPT ![lastCall'.p] = lastCall'.v]
               /\ Notifies(lastCall'.p, lastCall'.v, value[lastCall'.p])]_vars
  /\ [](\A k \in EmitIdx : k < Len(stack) => stack[k + 1].args = stack[k].args)

\* C5's case: set(v) on a has changed the value, and its notification is
\* running an observer with (v, previous value)
C5_Witness ==
  /\ Len(stack) = 2
  /\ lastCall.op = "set" /\ lastCall.p = "a" /\ lastCall.err = "none"
  /\ stack[1].kind = "emit" /\ stack[1].e = "a"
  /\ stack[2].kind = "listener" /\ stack[2].lis \in Observers
  /\ stack[2].args[1] = lastCall.v /\ stack[2].args[2] # lastCall.v
  /\ value["a"] = lastCall.v

\* C6: while a listener runs in a notification (new, old) of a Property that
\* has not been given another value since the notification began, the
\* Property's value is new.
C6_ValueStoredBeforeNotify ==
  \A k \in EmitIdx :
    (k < Len(stack) /\ ~stack[k].stale) => value[stack[k].e] = stack[k + 1].args[1]

\* C6's case: the second observer of a notification of a is running, and a has
\* not been set again
C6_Witness ==
  /\ Len(stack) = 2
  /\ stack[1].kind = "emit" /\ stack[1].e = "a" /\ ~stack[1].stale
  /\ stack[1].i = 1
  /\ stack[2].lis \in Observers

\* C7: reset stores the value the Property was constructed with, which no call
\* changes, and notifies, with (initial value, previous value), exactly if the
\* value before the reset differed from it.
C7_ResetRestoresInitialValue ==
  /\ [][CallStep("reset") =>
          /\ value' = [value EXCEPT ![lastCall'.p] = initialValue[lastCall'.p]]
          /\ IF value[lastCall'.p] = initialValue[lastCall'.p]
             THEN NoEffect
             ELSE Notifies(lastCall'.p, initialValue[lastCall'.p], value[lastCall'.p])]_vars
  /\ [](initialValue["a"] = Num(1) /\ initialValue["b"] = Bool(1))

\* C7's case: after sets that changed it, a reset has put a Property back to
\* its initial value and is notifying
C7_Witness ==
  /\ lastCall.op = "reset"
  /\ stack # <<>>
  /\ Top.kind = "emit" /\ Top.e = lastCall.p
  /\ Top.args[1] = initialValue[lastCall.p] /\ Top.args[2] # initialValue[lastCall.p]
  /\ value[lastCall.p] = initialValue[lastCall.p]

\* C8: set(v) on the BooleanProperty with v neither true nor false fails with a
\* validation error, changes no value and starts no notification; no other set
\* fails.
C8_InvalidSetFails ==
  [][CallStep("set") =>
       IF lastCall'.p = "b" /\ lastCall'.v \notin {Bool(0), Bool(1)}
       THEN lastCall'.err = "ValidationError" /\ NoEffect
       ELSE lastCall'.err = "none"]_vars

\* C8's case: a set of the BooleanProperty to a number has failed, while the
\* DerivedProperty listens to it
C8_Witness ==
  /\ lastCall.op = "set" /\ lastCall.p = "b" /\ lastCall.err = "ValidationError"
  /\ lastCall.v = Num(0)
  /\ derivedLive
  /\ value["b"] = Bool(0)

\* C9: link(observer) registers the observer and calls it once, at once, with
\* (current value, undefined); lazyLink registers it and calls nothing; and a
\* notification of a value change invokes an observer exactly if it was
\* registered when the change was made, once.
C9_LinkCallsOnceThenPerChange ==
  /\ [][(CallStep("link") /\ lastCall'.err = "none") =>
          /\ listeners' = [listeners EXCEPT ![lastCall'.p] = Append(@, lastCall'.lis)]
          /\ Len(stack') = Len(stack) + 1
          /\ stack'[Len(stack')].kind = "listener"
          /\ stack'[Len(stack')].lis = lastCall'.lis
          /\ stack'[Len(stack')].args = <<value[lastCall'.p], Undefined>>
          /\ UNCHANGED <<value, initialValue>>]_vars
  /\ [][(CallStep("lazyLink") /\ lastCall'.err = "none") =>
          /\ listeners' = [listeners EXCEPT ![lastCall'.p] = Append(@, lastCall'.lis)]
          /\ Len(stack') = Len(stack)
          /\ UNCHANGED <<value, initialValue>>]_vars
  /\ [](\A k \in EmitIdx :
          /\ IsPrefix(stack[k].called, stack[k].start)
          /\ Complete(k) => stack[k].called = stack[k].start
          /\ \A x \in DOMAIN stack[k].start : \A y \in DOMAIN stack[k].start :
               stack[k].start[x] = stack[k].start[y] => x = y)

\* C9's case: an observer linked from inside a notification of a is running
\* its immediate callback
C9_Witness ==
  /\ Len(stack) = 3
  /\ lastCall.op = "link" /\ lastCall.p = "a" /\ lastCall.err = "none"
  /\ stack[1].kind = "emit" /\ stack[1].e = "a"
  /\ stack[3].kind = "listener" /\ stack[3].via = "link" /\ stack[3].lis = lastCall.lis
  /\ stack[3].args = <<value["a"], Undefined>>
  /\ Len(Remaining(1)) > 0

\* A notification of a dependency has still to run the DerivedProperty's
\* listener, or is running it and it has not recomputed yet
RecomputePending ==
  \E k \in EmitIdx :
    /\ stack[k].e \in Range(Dependencies)
    /\ \/ DependencyListener(stack[k].e) \in Range(Remaining(k))
       \/ /\ k < Len(stack)
          /\ stack[k + 1].lis = DependencyListener(stack[k].e)
          /\ ~stack[k + 1].ran

\* C10: once the DerivedProperty is constructed, its value is the derivation of
\* the dependencies' current values whenever no notification of a dependency
\* has still to reach it: after its construction and after every set or reset
\* of a dependency has returned.
C10_DerivedFollowsDependencies ==
  (derivedLive /\ ~RecomputePending) => value["d"] = Derived

\* C10's case: a set or reset of a dependency has returned and has changed the
\* DerivedProperty's value
C10_Witness ==
  /\ stack = <<>>
  /\ derivedLive
  /\ lastCall.op \in {"set", "reset"} /\ lastCall.err = "none"
  /\ value["d"] # initialValue["d"]
  /\ value["d"] = Derived

\* An observer is running: the innermost activation is a client's callback
ObserverRunning == stack # <<>> /\ Top.kind = "listener" /\ Top.lis \in Observers

\* An observer that precedes the DerivedProperty's listener in the list a
\* notification of a dependency iterates (it was linked before the
\* DerivedProperty was constructed) is running or has a call in progress
EarlierObserverActive ==
  \E k \in EmitIdx :
    /\ k < Len(stack)
    /\ stack[k].e \in Range(Dependencies)
    /\ stack[k + 1].lis \in Observers
    /\ DependencyListener(stack[k].e) \in Range(Remaining(k))

\* C11 as stated: whenever an observer runs, of a dependency or of the
\* DerivedProperty, the DerivedProperty's value is the derivation of the
\* dependencies' current values.
C11_NoListenerSeesStaleDerived ==
  (ObserverRunning /\ derivedLive) => value["d"] = Derived

\* C11, amended: whenever an observer runs, the DerivedProperty's value is the
\* derivation of the dependencies' current values, unless an observer linked to
\* a dependency before the DerivedProperty was constructed is being notified of
\* that dependency's change: such an observer runs before the DerivedProperty's
\* listener has recomputed.
C11_OnlyEarlierObserversSeeStaleDerived ==
  (ObserverRunning /\ derivedLive /\ ~EarlierObserverActive) => value["d"] = Derived

\* C11's case: a set of a dependency has changed the DerivedProperty's value,
\* and an observer of the DerivedProperty is being notified of it
C11_Witness ==
  /\ Len(stack) = 4
  /\ stack[1].kind = "emit" /\ stack[1].e \in Range(Dependencies)
  /\ stack[2].lis = DependencyListener(stack[1].e)
  /\ stack[3].kind = "emit" /\ stack[3].e = "d"
  /\ stack[4].lis \in Observers
  /\ lastCall.op = "set"
  /\ value["d"] = Derived /\ value["d"] = stack[4].args[1]


----------------------------------------------------------------------------
(* The DerivedProperty's own methods: set and reset, which it forbids, and  *)
(* dispose.                                                                  *)

\* The single observer clients link in this part
DerivedObservers == {"l1"}

\* The DerivedProperty exists and has not been disposed
DerivedInUse == derivedLive /\ derived.dependencies # Null

\* A faulty variant of DerivedForbidden: the DerivedProperty does not override
\* Property's set
DerivedForbiddenInherited(op, v) == DerivedInUse /\ PropertySet(op, "d", v)

\* DerivedProperty.set and DerivedProperty.reset: always an error
DerivedForbidden(op, v) ==
  /\ ObserverReady
  /\ DerivedInUse
  /\ lastCall' = Call(op, "d", "none", v, "InvalidOperation")
  /\ stack' = Charged
  /\ UNCHANGED <<listeners, listenersToEmitTo>>
  /\ PropertyUnchanged

DerivedSet(v) == DerivedForbidden("set", v)

DerivedReset == DerivedForbidden("reset", Undefined)

\* Emitter.dispose: this.listeners.length = 0, in place
dispose(em) == [ls |-> <<>>, fr |-> em.fr]

\* DerivedProperty.dispose: unlink the listener from every dependency, set the
\* three fields to null, then dispose the Property, which disposes its Emitter
DerivedDispose ==
  /\ ObserverReady
  /\ DerivedInUse
  /\ LET deps == derived.dependencies.val
         ems == [p \in DOMAIN listeners |->
                   IF p \in Range(deps)
                   THEN removeListener(EmitterOf(p), derived.dependencyListeners.val[IndexOf(deps, p)])
                   ELSE IF p = "d" THEN dispose(EmitterOf(p)) ELSE EmitterOf(p)]
     IN /\ listeners' = [p \in DOMAIN listeners |-> ems[p].ls]
        /\ listenersToEmitTo' = [p \in DOMAIN listeners |-> ems[p].fr]
        /\ stack' = LET stk == Charged
                    IN [k \in DOMAIN stk |->
                          IF stk[k].kind = "emit" /\ listeners'[stk[k].e] # listeners[stk[k].e]
                          THEN [stk[k] EXCEPT !.mutated = TRUE] ELSE stk[k]]
  /\ derived' = NoDerived
  /\ lastCall' = Call("dispose", "d", "none", Undefined, "none")
  /\ UNCHANGED <<value, initialValue, derivedLive>>
  /\ ObjectsUnchanged

\* The Properties clients may still use
UsableProperties == BaseProperties \cup (IF DerivedInUse THEN DerivedProperties ELSE {})

DerivedNext ==
  \/ \E p \in BaseProperties : \E v \in InputValues(p) : setValue(p, v)
  \/ \E p \in UsableProperties \cap Observed, o \in DerivedObservers : link(p, o)
  \/ \E p \in UsableProperties \cap Observed, o \in DerivedObservers : unlink(p, o)
  \/ NewDerivedProperty
  \/ DerivedRecompute
  \/ \E v \in InputValues("a") : DerivedSet(v)
  \/ DerivedReset
  \/ DerivedDispose
  \/ EmitInvoke
  \/ ListenerReturn
  \/ EmitEnd

DerivedSpec == PropInit /\ [][DerivedNext]_vars

----------------------------------------------------------------------------
(* Claims about the DerivedProperty's own methods *)

\* The DerivedProperty has been disposed
DerivedDisposed == derivedLive /\ derived.dependencies = Null

\* The positions of listener l in the listener list of Property p
Installed(p, l) == {k \in DOMAIN listeners[p] : listeners[p][k] = l}

\* C12: set and reset on the DerivedProperty fail with InvalidOperation, change
\* no value and no listener list and start no notification; the
\* DerivedProperty's value changes only in its construction and in its own
\* listener on a dependency, which stores the derivation of the dependencies'
\* current values.
C12_DerivedSetAlwaysFails ==
  /\ [][((CallStep("set") \/ CallStep("reset")) /\ lastCall'.p = "d")
          => (lastCall'.err = "InvalidOperation" /\ NoEffect)]_vars
  /\ [][(value'["d"] # value["d"])
          => \/ ~derivedLive /\ derivedLive'
             \/ /\ stack # <<>>
                /\ Top.kind = "listener" /\ Top.lis \in DependencyListeners
                /\ stack[Len(stack) - 1].kind = "emit"
                /\ stack[Len(stack) - 1].e \in Range(Dependencies)
                /\ value'["d"] = Derived]_vars

\* C12's case: an observer of the DerivedProperty, notified of a recomputation,
\* has tried to set it to another value
C12_Witness ==
  /\ stack # <<>>
  /\ Top.kind = "listener" /\ Top.e = "d" /\ Top.via = "emit"
  /\ lastCall.op = "set" /\ lastCall.p = "d" /\ lastCall.err = "InvalidOperation"
  /\ lastCall.v # value["d"]
  /\ value["d"] # initialValue["d"]
  /\ value["d"] = Derived

\* C13: while the DerivedProperty over n dependencies is in use, every dependency
\* carries exactly one listener of it, its own, and the DerivedProperty holds
\* the n dependencies and n listeners; once it is disposed, no Property carries
\* a listener of it, its three fields are null, and its value never changes
\* and it never notifies again.
C13_DisposeUnlinksDependencies ==
  /\ [](DerivedInUse =>
          /\ derived.dependencies = Array(Dependencies)
          /\ Len(derived.dependencyListeners.val) = Len(Dependencies)
          /\ Len(derived.dependencyValues.val) = Len(Dependencies)
          /\ \A k \in DOMAIN Dependencies :
               /\ Cardinality(Installed(Dependencies[k], derived.dependencyListeners.val[k])) = 1
               /\ \A l \in DependencyListeners \ {derived.dependencyListeners.val[k]} :
                    Installed(Dependencies[k], l) = {})
  /\ [](DerivedDisposed =>
          /\ \A p \in DOMAIN listeners : \A l \in DependencyListeners : Installed(p, l) = {}
          /\ derived.dependencies = Null
          /\ derived.dependencyListeners = Null
          /\ derived.dependencyValues = Null)
  /\ [][DerivedDisposed =>
          /\ value'["d"] = value["d"]
          /\ Len(listenersToEmitTo'["d"]) <= Len(listenersToEmitTo["d"])
          /\ DerivedDisposed']_vars

\* C13's case: after the disposal, a set of a former dependency has returned
\* and has left the DerivedProperty's value behind
C13_Witness ==
  /\ DerivedDisposed
  /\ stack = <<>>
  /\ lastCall.op = "set" /\ lastCall.err = "none"
  /\ value["d"] # Derived
  /\ value[lastCall.p] = lastCall.v

----------------------------------------------------------------------------
(* DerivedProperty.and, DerivedProperty.or and DerivedProperty.valueEquals  *)
(* over the Properties pA, pB and pC.                                        *)

CombinatorSources == {"pA", "pB", "pC"}

\* The values clients pass to set: booleans and a number
CombinatorInputs == {Bool(0), Bool(1), Num(0)}

\* The combinator clients link an observer to
CombinatorObserved == {"or"}

\* The listener combinator q installs on its dependency p
CombinatorListener(q, p) == q \o "_" \o p
CombinatorListeners ==
  {CombinatorListener(q, p) : q \in Combinators, p \in CombinatorSources}

\* The combinator a listener belongs to
CombinatorOf(lis) ==
  CHOOSE q \in Combinators : \E p \in CombinatorSources : CombinatorListener(q, p) = lis

\* JavaScript's x && y and x || y
AndFunction(x, y) == IF x.val # 0 THEN y ELSE x
OrFunction(x, y) == IF x.val # 0 THEN x ELSE y

RECURSIVE Reduce(_, _, _)
\* _.reduce( properties, f, memo ), with the values of the Properties in s;
\* op tells which of the two functions f is
Reduce(op, s, memo) ==
  IF s = <<>> THEN memo
  ELSE Reduce(op, Tail(s), IF op = "and" THEN AndFunction(memo, Head(s)) ELSE OrFunction(memo, Head(s)))

\* A faulty variant of Identical: a.value == b.value, which converts
IdenticalLoose(x, y) == Bool(IF x.val = y.val THEN 1 ELSE 0)

\* a.value === b.value
Identical(x, y) == Bool(IF x = y THEN 1 ELSE 0)

\* The derivation of combinator q applied to its dependencies' current values
Combined(q) ==
  LET vals == [k \in DOMAIN CombinatorDependencies(q) |-> value[CombinatorDependencies(q)[k]]]
  IN IF q = "and" THEN Reduce("and", vals, Bool(1))
     ELSE IF q = "or" THEN Reduce("or", vals, Bool(0))
     ELSE Identical(vals[1], vals[2])

\* DerivedProperty.and( [ pA, pB, pC ] ), DerivedProperty.or( [ pA, pB, pC ] ),
\* DerivedProperty.valueEquals( pA, pB ): and and or fail over a dependency
\* whose value is not boolean; otherwise one lazy listener on every dependency
\* and the first computation of the value
NewCombinator(q) ==
  /\ ObserverReady
  /\ ~CombinatorLive(q)
  /\ LET deps == CombinatorDependencies(q)
     IN IF q \in {"and", "or"} /\ \E p \in Range(deps) : ~isBoolean(value[p])
        THEN /\ lastCall' = Call("new", q, "none", Undefined, "ValidationError")
             /\ stack' = Charged
             /\ UNCHANGED <<listeners, listenersToEmitTo, value, initialValue>>
        ELSE /\ LET ems == [p \in Range(deps) |-> addListener(EmitterOf(p), CombinatorListener(q, p))]
                IN /\ listeners' = [p \in DOMAIN listeners |->
                                      IF p \in Range(deps) THEN ems[p].ls ELSE listeners[p]]
                   /\ listenersToEmitTo' = [p \in DOMAIN listenersToEmitTo |->
                                      IF p \in Range(deps) THEN ems[p].fr ELSE listenersToEmitTo[p]]
             /\ value' = [value EXCEPT ![q] = Combined(q)]
             /\ initialValue' = [initialValue EXCEPT ![q] = Combined(q)]
             /\ stack' = LET stk == Charged
                         IN [k \in DOMAIN stk |->
                               IF stk[k].kind = "emit" /\ stk[k].e \in Range(deps)
                               THEN [stk[k] EXCEPT !.mutated = TRUE] ELSE stk[k]]
             /\ lastCall' = Call("new", q, "none", Undefined, "none")
  /\ UNCHANGED <<derivedLive, derived>>
  /\ ObjectsUnchanged

\* A combinator's listener on a dependency: it computes the derivation from the
\* dependencies' current values and stores it through Property's own set
CombinatorRecompute ==
  /\ stack # <<>>
  /\ Top.kind = "listener"
  /\ Top.lis \in CombinatorListeners
  /\ ~Top.ran
  /\ LET stk == [stack EXCEPT ![Len(stack)].ran = TRUE]
         q == CombinatorOf(Top.lis)
     IN IF areEqual(Combined(q), value[q])
        THEN /\ stack' = stk
             /\ UNCHANGED <<listeners, listenersToEmitTo, value>>
        ELSE StoreAndNotify(q, Combined(q), stk)
  /\ UNCHANGED <<initialValue, derivedLive, derived, lastCall>>
  /\ ObjectsUnchanged

CombinatorInit ==
  /\ listeners = [p \in CombinatorSources \cup Combinators |-> <<>>]
  /\ listenersToEmitTo = [p \in CombinatorSources \cup Combinators |-> <<>>]
  /\ stack = <<>>
  /\ value = [p \in CombinatorSources \cup Combinators |->
                IF p \in CombinatorSources THEN Bool(0) ELSE Undefined]
  /\ initialValue = value
  /\ derivedLive = FALSE
  /\ derived = NoDerived
  /\ multilinks = <<>>
  /\ propertySet = NoPropertySet
  /\ lastCall = Call("new", "pA", "none", Undefined, "none")

CombinatorNext ==
  \/ \E p \in CombinatorSources : \E v \in CombinatorInputs : setValue(p, v)
  \/ \E q \in Combinators : NewCombinator(q)
  \/ CombinatorRecompute
  \/ \E q \in CombinatorObserved, o \in DerivedObservers : CombinatorLive(q) /\ link(q, o)
  \/ EmitInvoke
  \/ ListenerReturn
  \/ EmitEnd

CombinatorSpec == CombinatorInit /\ [][CombinatorNext]_vars

----------------------------------------------------------------------------
(* Claims about and, or and valueEquals *)

\* The dependencies of and and or whose value is true
TrueSources == {p \in CombinatorSources : value[p] = Bool(1)}

\* C14: whenever no call is in progress (after the construction, after every
\* set has returned), the value of and is true exactly if every dependency is
\* true, and the value of or is true exactly if some dependency is true.
C14_AndOrFollowDependencies ==
  stack = <<>> =>
    /\ CombinatorLive("and") =>
         value["and"] = Bool(IF TrueSources = CombinatorSources THEN 1 ELSE 0)
    /\ CombinatorLive("or") =>
         value["or"] = Bool(IF TrueSources # {} THEN 1 ELSE 0)

\* C14's case: and and or were made over three false Properties, and the third
\* set to true has made and true
C14_Witness ==
  /\ stack = <<>>
  /\ CombinatorLive("and") /\ CombinatorLive("or")
  /\ initialValue["and"] = Bool(0) /\ initialValue["or"] = Bool(0)
  /\ lastCall.op = "set" /\ lastCall.v = Bool(1)
  /\ TrueSources = CombinatorSources
  /\ value["and"] = Bool(1) /\ value["or"] = Bool(1)

C16_ValueEqualsFollowsDependencies ==
  (stack = <<>> /\ CombinatorLive("eq")) =>
    value["eq"] = (IF value["pA"].type = value["pB"].type /\ value["pA"].val = value["pB"].val
                   THEN Bool(1) ELSE Bool(0))

\* C16's case: valueEquals was made over different values, and a set has made
\* them identical; and the case of false and 0, which are not identical
C16_Witness ==
  /\ stack = <<>>
  /\ CombinatorLive("eq")
  /\ initialValue["eq"] = Bool(0)
  /\ lastCall.op = "set" /\ lastCall.p = "pA" /\ lastCall.err = "none"
  /\ value["pA"] = Bool(1) /\ value["pB"] = Bool(1)
  /\ value["eq"] = Bool(1)

----------------------------------------------------------------------------
(* Multilinks over the Properties a and b, made and detached through the    *)
(* PropertySet's multilink, lazyMultilink and unmultilink.                   *)

\* The dependency lists clients pass
MultilinkDependencies == {<<"a", "b">>, <<"b">>}

\* The names the model gives to the Multilinks, in the order of construction
MultilinkNames == <<"m1", "m2", "m3">>

\* The listener Multilink k installs on its dependency p
MultilinkListener(k, p) == MultilinkNames[k] \o "_" \o p
MultilinkListeners ==
  {MultilinkListener(k, p) : k \in DOMAIN MultilinkNames, p \in BaseProperties}

\* The Multilink a listener belongs to
MultilinkOf(lis) ==
  CHOOSE k \in DOMAIN MultilinkNames : \E p \in BaseProperties : MultilinkListener(k, p) = lis

\* A Multilink after detach: its references are null
DetachedMultilink == [dependencies |-> Null, dependencyListeners |-> Null, observer |-> "null"]

\* The current values of the Properties in deps, in their order
ValuesOf(deps) == [j \in DOMAIN deps |-> value[deps[j]]]

\* A faulty variant of ObserverArgs: only the changed dependency's value is passed
ObserverArgsChanged(deps, p) == <<value[p]>>

\* The arguments of the observer when dependency p has changed: the current
\* values of all dependencies
ObserverArgs(deps, p) == ValuesOf(deps)

\* The call observer( ...values ) made by Multilink k
ObserverCall(k, o, args) == ListenerActivation(MultilinkNames[k], o, args, "multilink")

\* new Multilink( dependencies, observer, lazy ): one lazy listener on every
\* dependency, and unless lazy one call of the observer
NewMultilink(op, deps, o, lazy) ==
  /\ ObserverReady
  /\ Len(multilinks) < MaxMultilinks
  /\ LET k == Len(multilinks) + 1
         ems == [p \in Range(deps) |-> addListener(EmitterOf(p), MultilinkListener(k, p))]
         stk == LET c == Charged
                IN [j \in DOMAIN c |->
                      IF c[j].kind = "emit" /\ c[j].e \in Range(deps)
                      THEN [c[j] EXCEPT !.mutated = TRUE] ELSE c[j]]
     IN /\ listeners' = [p \in DOMAIN listeners |->
                           IF p \in Range(deps) THEN ems[p].ls ELSE listeners[p]]
        /\ listenersToEmitTo' = [p \in DOMAIN listenersToEmitTo |->
                           IF p \in Range(deps) THEN ems[p].fr ELSE listenersToEmitTo[p]]
        /\ multilinks' = Append(multilinks,
                                [dependencies |-> Array(deps),
                                 dependencyListeners |-> Array([j \in DOMAIN deps |-> MultilinkListener(k, deps[j])]),
                                 observer |-> o])
        /\ stack' = IF lazy THEN stk ELSE Append(stk, ObserverCall(k, o, ValuesOf(deps)))
        /\ lastCall' = Call(op, MultilinkNames[k], o, Undefined, "none")
  /\ UNCHANGED <<value, initialValue, derivedLive, derived, propertySet>>

\* PropertySet.multilink: new Multilink( properties, observer, false )
multilink(deps, o) == NewMultilink("multilink", deps, o, FALSE)

\* PropertySet.lazyMultilink: new Multilink( properties, observer, true )
lazyMultilink(deps, o) == NewMultilink("lazyMultilink", deps, o, TRUE)

\* A Multilink's listener on a dependency: it calls the observer with the
\* current values of all dependencies.  Invoked after detach (by a notification
\* that began before it) it finds its references null and fails.
MultilinkNotify ==
  /\ stack # <<>>
  /\ Top.kind = "listener"
  /\ Top.lis \in MultilinkListeners
  /\ ~Top.ran
  /\ LET k == MultilinkOf(Top.lis)
     IN IF multilinks[k].dependencies = Null
        THEN Thrown(Top.e, Top.lis, "TypeError")
        ELSE /\ stack' = Append([stack EXCEPT ![Len(stack)].ran = TRUE],
                                ObserverCall(k, multilinks[k].observer,
                                             ObserverArgs(multilinks[k].dependencies.val, Top.e)))
             /\ UNCHANGED lastCall
  /\ UNCHANGED <<listeners, listenersToEmitTo, multilinks>>
  /\ UNCHANGED <<value, initialValue, derivedLive, derived, propertySet>>

\* Multilink.detach: unlink the listener from every dependency and set the
\* references to null; a second detach fails
detach(k) ==
  /\ ObserverReady
  /\ IF multilinks[k].dependencies = Null
     THEN /\ lastCall' = Call("detach", MultilinkNames[k], "none", Undefined, "UseAfterDetach")
          /\ stack' = Charged
          /\ UNCHANGED <<listeners, listenersToEmitTo, multilinks>>
     ELSE LET deps == multilinks[k].dependencies.val
              ems == [p \in Range(deps) |->
                        removeListener(EmitterOf(p), multilinks[k].dependencyListeners.val[IndexOf(deps, p)])]
              c == Charged
          IN /\ listeners' = [p \in DOMAIN listeners |->
                                IF p \in Range(deps) THEN ems[p].ls ELSE listeners[p]]
             /\ listenersToEmitTo' = [p \in DOMAIN listenersToEmitTo |->
                                IF p \in Range(deps) THEN ems[p].fr ELSE listenersToEmitTo[p]]
             /\ multilinks' = [multilinks EXCEPT ![k] = DetachedMultilink]
             /\ stack' = [j \in DOMAIN c |->
                            IF c[j].kind = "emit" /\ c[j].e \in Range(deps)
                            THEN [c[j] EXCEPT !.mutated = TRUE] ELSE c[j]]
             /\ lastCall' = Call("detach", MultilinkNames[k], "none", Undefined, "none")
  /\ UNCHANGED <<value, initialValue, derivedLive, derived, propertySet>>

\* PropertySet.unmultilink: multilink.detach()
unmultilink(k) == detach(k)

MultilinkNext ==
  \/ \E p \in BaseProperties : \E v \in InputValues(p) : setValue(p, v)
  \/ \E deps \in MultilinkDependencies, o \in DerivedObservers : multilink(deps, o)
  \/ \E deps \in MultilinkDependencies, o \in DerivedObservers : lazyMultilink(deps, o)
  \/ \E k \in DOMAIN multilinks : unmultilink(k)
  \/ MultilinkNotify
  \/ EmitInvoke
  \/ ListenerReturn
  \/ EmitEnd

MultilinkSpec == PropInit /\ [][MultilinkNext]_vars

----------------------------------------------------------------------------
(* Claims about Multilinks *)

\* Multilink k exists and has not been detached
Attached(k) == k \in DOMAIN multilinks /\ multilinks[k].dependencies # Null

\* The Multilink of the given name
MultilinkIndex(name) == CHOOSE k \in DOMAIN MultilinkNames : MultilinkNames[k] = name

\* The step calls the observer of a Multilink
ObserverCalled ==
  /\ Len(stack') = Len(stack) + 1
  /\ stack'[Len(stack')].via = "multilink"

C18_DetachUnlinksAndFailsTwice ==
  /\ [][CallStep("detach") =>
          IF Attached(MultilinkIndex(lastCall'.p))
          THEN /\ lastCall'.err = "none"
               /\ multilinks' = [multilinks EXCEPT ![MultilinkIndex(lastCall'.p)] = DetachedMultilink]
               /\ \A p \in BaseProperties : \A j \in DOMAIN listeners'[p] :
                    listeners'[p][j] # MultilinkListener(MultilinkIndex(lastCall'.p), p)
          ELSE /\ lastCall'.err = "UseAfterDetach"
               /\ NoEffect
               /\ UNCHANGED multilinks]_vars
  /\ [](\A k \in DOMAIN multilinks : ~Attached(k) =>
          \A p \in DOMAIN listeners :
            {j \in DOMAIN listeners[p] : listeners[p][j] = MultilinkListener(k, p)} = {})
  /\ [][\A k \in DOMAIN multilinks : ~Attached(k) =>
          /\ k \in DOMAIN multilinks' /\ multilinks'[k] = DetachedMultilink
          /\ ~(ObserverCalled /\ stack'[Len(stack')].e = MultilinkNames[k])]_vars

\* C18's case: a Multilink was detached, a set has changed one of its former
\* dependencies since and has returned, and a second detach has failed
C18_Witness ==
  /\ stack = <<>>
  /\ lastCall.op = "detach" /\ lastCall.err = "UseAfterDetach"
  /\ multilinks[MultilinkIndex(lastCall.p)] = DetachedMultilink
  /\ value["b"] # initialValue["b"]
  /\ \E k \in DOMAIN multilinks : Attached(k)

----------------------------------------------------------------------------
(* The PropertySet (js/PropertySet.js).  It holds a Property under          *)
(* name + 'Property' and an accessor under the name, and keeps the names in *)
(* keys.  Its Properties are created by addProperty; the model names them   *)
(* p1, p2, ... in the order of creation.  Clients call the PropertySet from *)
(* top-level code; the observers they link only look at what they are told. *)

\* The names clients add, and a name they never add
GroupNames == {"x", "y"}
AllNames == GroupNames \cup {"z"}

\* The Properties the PropertySet creates, in the order of creation
PropertyPool == <<"p1", "p2", "p3", "p4">>

\* The DerivedProperty the PropertySet creates (one at most), and the listener
\* it installs on its dependency
GroupDerived == "d"
GroupDependencyListener == "dl"

\* The derivation clients pass to addDerivedProperty:
\* function( a ) { return a + 1; }
GroupDerivation(x) == Num(x.val + 1)

\* The values clients set, and the values they add Properties with
GroupValues == {Num(0), Num(1)}
AddedValues == {Num(1)}

\* The values clients assign to a name that has no setter, the names whose
\* Property they link observers to, and the names they make a DerivedProperty
\* depend on
AssignedValues == {Num(0)}
LinkedNames == {"x"}
DependencyNames == {"x"}

\* The objects clients pass to setValues: name and value pairs in the order of
\* Object.getOwnPropertyNames
ValueObjects ==
  {<<[name |-> n1, v |-> v], [name |-> n2, v |-> v], [name |-> n3, v |-> v]>> :
     n1 \in AllNames, n2 \in AllNames, n3 \in AllNames, v \in GroupValues}

\* An object has every name once
WellFormed(obj) == \A j \in DOMAIN obj : \A k \in DOMAIN obj : obj[j].name = obj[k].name => j = k

\* The Properties created so far
Created == {k \in DOMAIN PropertyPool : value[PropertyPool[k]] # Undefined}

\* this[ propertyName + SUFFIX ]
PropertyNamed(n) == propertySet.properties[n]

\* One running forEach of the PropertySet: via tells the method ("reset" or
\* "setValues"), args is the array it iterates, i the elements done; called is
\* history, the names it has visited
ForEachActivation(via, array) ==
  [kind |-> "forEach", e |-> "propertySet", lastEntry |-> 0, i |-> 0, lis |-> "none",
   args |-> array, ops |-> 0, via |-> via, ran |-> FALSE,
   start |-> <<>>, called |-> <<>>, nested |-> FALSE, mutated |-> FALSE, stale |-> FALSE]

\* addProperty: new Property( value ) under the next name of the pool,
\* addGetterAndSetter (the accessor replaces whatever the name held), and the
\* push onto keys
addProperty(n, v) ==
  /\ stack = <<>>
  /\ Cardinality(Created) < MaxProperties
  /\ LET p == PropertyPool[Cardinality(Created) + 1]
     IN /\ value' = [value EXCEPT ![p] = v]
        /\ initialValue' = [initialValue EXCEPT ![p] = v]
        /\ propertySet' = [keys |-> Append(propertySet.keys, n),
                           properties |-> [propertySet.properties EXCEPT ![n] = p],
                           accessors |-> [propertySet.accessors EXCEPT ![n] = "getset"],
                           plain |-> [propertySet.plain EXCEPT ![n] = Undefined]]
  /\ lastCall' = Call("addProperty", n, "none", v, "none")
  /\ UNCHANGED <<listeners, listenersToEmitTo, stack, derivedLive, derived, multilinks>>

\* removeProperty: splice the first occurrence of the name out of keys, delete
\* the Property and whatever the name holds from the PropertySet
removeProperty(n) ==
  /\ stack = <<>>
  /\ LET index == IndexOf(propertySet.keys, n)
     IN propertySet' = [keys |-> IF index # 0 THEN Splice(propertySet.keys, index) ELSE propertySet.keys,
                        properties |-> [propertySet.properties EXCEPT ![n] = "none"],
                        accessors |-> [propertySet.accessors EXCEPT ![n] = "none"],
                        plain |-> [propertySet.plain EXCEPT ![n] = Undefined]]
  /\ lastCall' = Call("removeProperty", n, "none", Undefined, "none")
  /\ UNCHANGED <<listeners, listenersToEmitTo, stack, value, initialValue, derivedLive, derived, multilinks>>

\* propertySet[ name ] = value where the name holds the accessor with a setter:
\* property.set( value ).  The accessor's property is the Property under the
\* name: both are assigned together.
GroupSet(n, v) ==
  /\ stack = <<>>
  /\ propertySet.accessors[n] = "getset"
  /\ setValue(PropertyNamed(n), v)

\* propertySet[ name ] = value where the name holds no accessor with a setter.
\* Without an accessor the assignment makes (or overwrites) a plain property of
\* the object.  With the getter of addGetter alone it stores nothing: strict
\* code fails with a TypeError, other code goes on.
GroupAssign(n, v) ==
  /\ stack = <<>>
  /\ propertySet.accessors[n] # "getset"
  /\ IF propertySet.accessors[n] = "get"
     THEN /\ \E err \in {"none", "TypeError"} : lastCall' = Call("assign", n, "none", v, err)
          /\ UNCHANGED propertySet
     ELSE /\ lastCall' = Call("assign", n, "none", v, "none")
          /\ propertySet' = [propertySet EXCEPT !.accessors[n] = "plain", !.plain[n] = v]
  /\ UNCHANGED <<listeners, listenersToEmitTo, stack, value, initialValue, derivedLive, derived, multilinks>>

\* propertySet[ name ]: the getter's property.get(), the plain property's
\* value, or undefined for a name the object does not have
GroupRead(n) ==
  /\ stack = <<>>
  /\ lastCall' = Call("read", n, "none",
                      IF propertySet.accessors[n] \in {"getset", "get"} THEN value[PropertyNamed(n)]
                      ELSE propertySet.plain[n],
                      "none")
  /\ UNCHANGED <<listeners, listenersToEmitTo, stack, value, initialValue, derivedLive, derived, multilinks, propertySet>>

\* addDerivedProperty( name, [ dependencyName ], derivation ): getProperties
\* fails for a name without a Property; new DerivedProperty installs its
\* listener on the dependency and computes its value; addGetter replaces
\* whatever the name held.  keys is left alone.
addDerivedProperty(n, m) ==
  /\ stack = <<>>
  /\ ~derivedLive
  /\ IF PropertyNamed(m) = "none"
     THEN /\ lastCall' = Call("addDerivedProperty", n, "none", Undefined, "UnknownName")
          /\ UNCHANGED <<listeners, value, initialValue, derivedLive, derived, propertySet>>
     ELSE LET p == PropertyNamed(m)
          IN /\ listeners' = [listeners EXCEPT ![p] = addListener(EmitterOf(p), GroupDependencyListener).ls]
             /\ value' = [value EXCEPT ![GroupDerived] = GroupDerivation(value[p])]
             /\ initialValue' = [initialValue EXCEPT ![GroupDerived] = GroupDerivation(value[p])]
             /\ derivedLive' = TRUE
             /\ derived' = [dependencies |-> Array(<<p>>),
                            dependencyListeners |-> Array(<<GroupDependencyListener>>),
                            dependencyValues |-> Array(<<value[p]>>)]
             /\ propertySet' = [propertySet EXCEPT !.properties[n] = GroupDerived,
                                                   !.accessors[n] = "get",
                                                   !.plain[n] = Undefined]
             /\ lastCall' = Call("addDerivedProperty", n, "none", Undefined, "none")
  /\ UNCHANGED <<listenersToEmitTo, stack, multilinks>>

\* The DerivedProperty's listener on its dependency: it computes the derivation
\* from the dependency's current value and stores it through Property's own
\* set, which notifies if the value differs
GroupDerivedRecompute ==
  /\ stack # <<>>
  /\ Top.kind = "listener"
  /\ Top.lis = GroupDependencyListener
  /\ ~Top.ran
  /\ LET p == derived.dependencies.val[1]
         v == GroupDerivation(value[p])
         stk == [stack EXCEPT ![Len(stack)].ran = TRUE]
     IN /\ IF areEqual(v, value[GroupDerived])
           THEN /\ stack' = stk
                /\ UNCHANGED <<listeners, listenersToEmitTo, value>>
           ELSE StoreAndNotify(GroupDerived, v, stk)
        /\ derived' = [derived EXCEPT !.dependencyValues = Array(<<value[p]>>)]
  /\ UNCHANGED <<initialValue, derivedLive, lastCall>>
  /\ ObjectsUnchanged

\* PropertySet.link: this[ propertyName + SUFFIX ].link( observer )
GroupLink(n, o) ==
  /\ stack = <<>>
  /\ PropertyNamed(n) # "none"
  /\ link(PropertyNamed(n), o)

\* A forEach callback fails: the exception leaves the method
ForEachThrown(err) ==
  /\ stack' = Unwound(stack)
  /\ lastCall' = [lastCall EXCEPT !.err = err]
  /\ UNCHANGED <<listeners, listenersToEmitTo, value>>

\* The stack after the running forEach has visited name n
Visited(n) ==
  [stack EXCEPT ![Len(stack)].i = @ + 1, ![Len(stack)].called = Append(@, n)]

\* PropertySet.reset up to the loop: this.keys.forEach( .. )
GroupReset ==
  /\ stack = <<>>
  /\ stack' = <<ForEachActivation("reset", propertySet.keys)>>
  /\ lastCall' = Call("resetAll", "propertySet", "none", Undefined, "none")
  /\ UNCHANGED <<listeners, listenersToEmitTo>>
  /\ PropertyUnchanged

\* The callback of reset's forEach: propertySet[ key + SUFFIX ].reset(), which
\* fails if there is no Property under the key, or a DerivedProperty
GroupResetStep ==
  /\ stack # <<>>
  /\ Top.kind = "forEach" /\ Top.via = "reset"
  /\ Top.i < Len(Top.args)
  /\ LET key == propertySet.keys[Top.i + 1]
         p == PropertyNamed(key)
     IN IF p = "none"
        THEN ForEachThrown("TypeError")
        ELSE IF p = GroupDerived
        THEN ForEachThrown("InvalidOperation")
        ELSE /\ IF areEqual(ResetValue(p), value[p])
                THEN /\ stack' = Visited(key)
                     /\ UNCHANGED <<listeners, listenersToEmitTo, value>>
                ELSE StoreAndNotify(p, ResetValue(p), Visited(key))
             /\ UNCHANGED lastCall
  /\ UNCHANGED <<initialValue, derivedLive, derived>>
  /\ ObjectsUnchanged

\* typeof( propertySet[ propertyName + SUFFIX ] === 'Property' ): the type of
\* the result of a comparison
TypeofComparison(p) == "boolean"

\* PropertySet.setValues up to the loop:
\* Object.getOwnPropertyNames( values ).forEach( .. )
setValues(obj) ==
  /\ stack = <<>>
  /\ WellFormed(obj)
  /\ stack' = <<ForEachActivation("setValues", obj)>>
  /\ lastCall' = Call("setValues", "propertySet", "none", Undefined, "none")
  /\ UNCHANGED <<listeners, listenersToEmitTo>>
  /\ PropertyUnchanged

\* The callback of setValues' forEach: the test, which any string but the empty
\* one passes, then propertySet[ propertyName + SUFFIX ].set( value ), or the
\* error 'property not found'
SetValuesStep ==
  /\ stack # <<>>
  /\ Top.kind = "forEach" /\ Top.via = "setValues"
  /\ Top.i < Len(Top.args)
  /\ LET n == Top.args[Top.i + 1].name
         v == Top.args[Top.i + 1].v
         p == PropertyNamed(n)
     IN IF TypeofComparison(p) # ""
        THEN IF p = "none"
             THEN ForEachThrown("TypeError")
             ELSE IF p = GroupDerived
             THEN ForEachThrown("InvalidOperation")
             ELSE /\ IF areEqual(v, value[p])
                     THEN /\ stack' = Visited(n)
                          /\ UNCHANGED <<listeners, listenersToEmitTo, value>>
                     ELSE StoreAndNotify(p, v, Visited(n))
                  /\ UNCHANGED lastCall
        ELSE ForEachThrown("UnknownName")
  /\ UNCHANGED <<initialValue, derivedLive, derived>>
  /\ ObjectsUnchanged

\* forEach has visited every element: the method returns
ForEachEnd ==
  /\ stack # <<>>
  /\ Top.kind = "forEach"
  /\ Top.i = Len(Top.args)
  /\ stack' = Pop(stack)
  /\ UNCHANGED <<listeners, listenersToEmitTo, lastCall>>
  /\ PropertyUnchanged

\* new PropertySet( { x: 1 } )
GroupInit ==
  /\ listeners = [p \in Range(PropertyPool) \cup {GroupDerived} |-> <<>>]
  /\ listenersToEmitTo = [p \in Range(PropertyPool) \cup {GroupDerived} |-> <<>>]
  /\ stack = <<>>
  /\ value = [p \in Range(PropertyPool) \cup {GroupDerived} |-> IF p = "p1" THEN Num(1) ELSE Undefined]
  /\ initialValue = value
  /\ derivedLive = FALSE
  /\ derived = NoDerived
  /\ multilinks = <<>>
  /\ propertySet = [keys |-> <<"x">>,
                    properties |-> [n \in AllNames |-> IF n = "x" THEN "p1" ELSE "none"],
                    accessors |-> [n \in AllNames |-> IF n = "x" THEN "getset" ELSE "none"],
                    plain |-> [n \in AllNames |-> Undefined]]
  /\ lastCall = Call("new", "propertySet", "none", Undefined, "none")

GroupNext ==
  \/ \E n \in GroupNames, v \in AddedValues : addProperty(n, v)
  \/ \E n \in GroupNames : removeProperty(n)
  \/ \E n \in GroupNames, v \in GroupValues : GroupSet(n, v)
  \/ \E n \in GroupNames, v \in AssignedValues : GroupAssign(n, v)
  \/ \E n \in GroupNames : GroupRead(n)
  \/ \E n \in GroupNames, m \in DependencyNames : addDerivedProperty(n, m)
  \/ GroupDerivedRecompute
  \/ \E n \in LinkedNames, o \in DerivedObservers : GroupLink(n, o)
  \/ GroupReset
  \/ GroupResetStep
  \/ \E obj \in ValueObjects : setValues(obj)
  \/ SetValuesStep
  \/ ForEachEnd
  \/ EmitInvoke
  \/ ListenerReturn
  \/ EmitEnd

GroupSpec == GroupInit /\ [][GroupNext]_vars

----------------------------------------------------------------------------
(* Claims about the PropertySet                                             *)

\* resetAll has ended, by returning or by failing
ResetAllOver == lastCall.op = "resetAll" /\ stack = <<>>

\* C19: after resetAll every entry of the PropertySet that is no DerivedProperty
\* has the initial value it was added with, and resetAll visits the entries in
\* the order they were added.  Violated: after addProperty('x'), addProperty('y') and
\* removeProperty('x') on a PropertySet that had x, keys still has an x without
\* a Property; reset fails on it before it reaches y.
C19_ResetAllRestoresEntries ==
  /\ \A k \in DOMAIN stack :
       (stack[k].kind = "forEach" /\ stack[k].via = "reset")
         => stack[k].called = SubSeq(propertySet.keys, 1, stack[k].i)
  /\ ResetAllOver
       => \A n \in AllNames :
            PropertyNamed(n) \in Range(PropertyPool)
              => value[PropertyNamed(n)] = initialValue[PropertyNamed(n)]

\* setValues is at a name that has no Property
AtMissingName ==
  /\ stack # <<>>
  /\ Top.kind = "forEach" /\ Top.via = "setValues"
  /\ Top.i < Len(Top.args)
  /\ PropertyNamed(Top.args[Top.i + 1].name) = "none"

\* The names before the one setValues is at have the values of the argument
EarlierNamesSet ==
  \A j \in 1..Top.i : value[PropertyNamed(Top.args[j].name)] = Top.args[j].v

\* C20: setValues takes the names of its argument in order; at a name that has
\* no Property it fails with the error 'property not found', the names before
\* it keep the values they were set to and no other Property changes.
\* Violated: the call fails with a TypeError, the error 'property not found'
\* is never thrown.
C20_SetValuesFailsWithUnknownName ==
  [][AtMissingName
       => /\ Top.called = [j \in 1..Top.i |-> Top.args[j].name]
          /\ EarlierNamesSet
          /\ stack' = <<>>
          /\ value' = value
          /\ lastCall'.op = "setValues"
          /\ lastCall'.err = "UnknownName"]_vars

\* The same statement with the error that the call fails with
SetValuesFailsWithTypeError ==
  [][AtMissingName
       => /\ Top.called = [j \in 1..Top.i |-> Top.args[j].name]
          /\ EarlierNamesSet
          /\ stack' = <<>>
          /\ value' = value
          /\ lastCall'.op = "setValues"
          /\ lastCall'.err = "TypeError"]_vars

\* The step is a call of method op of the PropertySet by top-level code
GroupCallStep(op) == stack = <<>> /\ lastCall'.op = op

\* C21: addProperty with a name that has a Property fails with DuplicateName and
\* leaves the Property under the name, its accessor and keys as they were.
\* Violated: addProperty has no such test; it puts a new Property under the
\* name and pushes the name onto keys again.
C21_AddPropertyRejectsDuplicate ==
  [][(GroupCallStep("addProperty") /\ PropertyNamed(lastCall'.p) # "none")
       => /\ lastCall'.err = "DuplicateName"
          /\ propertySet' = propertySet
          /\ UNCHANGED <<value, initialValue, listeners>>]_vars

\* C22: every name in keys is there once and has a Property of its own (no
\* DerivedProperty) under it, so that reset meets no name without a Property
\* and no DerivedProperty.  Violated: addProperty pushes a name that is in keys
\* already, and addDerivedProperty puts a DerivedProperty under a name that is
\* in keys.
C22_KeysBackedByResettableProperty ==
  /\ \A j \in DOMAIN propertySet.keys : \A k \in DOMAIN propertySet.keys :
       propertySet.keys[j] = propertySet.keys[k] => j = k
  /\ \A j \in DOMAIN propertySet.keys :
       PropertyNamed(propertySet.keys[j]) \in Range(PropertyPool)
  /\ lastCall.op = "resetAll" => lastCall.err = "none"

\* C23: removeProperty disposes the Property under the name: after the call
\* that Property has no listeners, and if it is the DerivedProperty, no
\* Property has the DerivedProperty's listener.  Violated: removeProperty
\* deletes the Property from the PropertySet and calls nothing on it.
C23_RemovePropertyDisposes ==
  [][(GroupCallStep("removeProperty") /\ PropertyNamed(lastCall'.p) # "none")
       => /\ listeners'[PropertyNamed(lastCall'.p)] = <<>>
          /\ PropertyNamed(lastCall'.p) = GroupDerived
               => \A q \in DOMAIN listeners : GroupDependencyListener \notin Range(listeners'[q])]_vars

\* The names that have been removed: x has a Property from the construction of
\* the PropertySet on, so without one it has been removed
RemovedNames == {n \in {"x"} : PropertyNamed(n) = "none"}

\* C24: reading or assigning a removed name of the PropertySet fails with
\* UnknownName and stores nothing.  Violated: removeProperty deletes the
\* accessor; reading the name yields undefined and assigning to it makes a
\* plain property, both without an error.
C24_RemovedNameFails ==
  [][((GroupCallStep("read") \/ GroupCallStep("assign")) /\ lastCall'.p \in RemovedNames)
       => /\ lastCall'.err = "UnknownName"
          /\ propertySet' = propertySet]_vars

----------------------------------------------------------------------------
(* The Emitter with assertions off.  addListener and removeListener test    *)
(* their argument with assert && assert( .. ), which does nothing when      *)
(* assert is not set (PropertySet.js speaks of code that "can be skipped    *)
(* when assertions are off").  Here the client also disposes the Emitter,   *)
(* and its listeners may throw.                                             *)

\* The listeners the client registers here, and the emit it calls: emit()
AssertOffCallbacks == {"l1", "l2"}
AssertOffArgs == {<<>>}

\* Code that may call the Emitter now
AssertOffReady == CallerReadyWithin(MaxCalls)

\* addListener when assert is not set: defend the frames, then push
AddListenerAssertOff(e, l) ==
  /\ AssertOffReady
  /\ Len(listeners[e]) < MaxListeners
  /\ LET em == addListener(EmitterOf(e), l)
     IN /\ listeners' = [listeners EXCEPT ![e] = em.ls]
        /\ listenersToEmitTo' = [listenersToEmitTo EXCEPT ![e] = em.fr]
  /\ stack' = Mutated(Charged, e)
  /\ lastCall' = Call("addListener", e, l, Undefined, "none")
  /\ PropertyUnchanged

\* removeListener when assert is not set: indexOf, defend the frames, then
\* splice( index, 1 ), also with the index -1 of a listener that is not there
RemoveListenerAssertOff(e, l) ==
  /\ AssertOffReady
  /\ LET em == removeListener(EmitterOf(e), l)
     IN /\ listeners' = [listeners EXCEPT ![e] = em.ls]
        /\ listenersToEmitTo' = [listenersToEmitTo EXCEPT ![e] = em.fr]
        /\ stack' = IF em.ls = listeners[e] THEN Charged ELSE Mutated(Charged, e)
  /\ lastCall' = Call("removeListener", e, l, Undefined, "none")
  /\ PropertyUnchanged

\* Emitter.dispose: this.listeners.length = 0
Dispose(e) ==
  /\ AssertOffReady
  /\ LET em == dispose(EmitterOf(e))
     IN /\ listeners' = [listeners EXCEPT ![e] = em.ls]
        /\ listenersToEmitTo' = [listenersToEmitTo EXCEPT ![e] = em.fr]
  /\ stack' = IF listeners[e] = <<>> THEN Charged ELSE Mutated(Charged, e)
  /\ lastCall' = Call("dispose", e, "none", Undefined, "none")
  /\ PropertyUnchanged

\* A client's listener throws: the exception leaves the listener and the emit
\* that called it
ListenerThrows ==
  /\ stack # <<>>
  /\ Top.kind = "listener"
  /\ Top.lis \in Callbacks
  /\ Thrown(Top.e, Top.lis, "Error")
  /\ UNCHANGED <<listeners, listenersToEmitTo>>
  /\ PropertyUnchanged

\* emit while listenersToEmitTo has room: the frames that failed emissions have
\* left behind count too
EmitBounded(e, args) ==
  /\ AssertOffReady
  /\ Len(listenersToEmitTo[e]) < MaxFrames
  /\ Emit(e, args)

\* removeAllListeners, called by code that may call the Emitter now
RemoveAllListenersBounded(e) ==
  /\ AssertOffReady
  /\ RemoveAllListeners(e)

AssertOffNext ==
  \/ \E e \in EmitterIds, args \in AssertOffArgs : EmitBounded(e, args)
  \/ EmitInvoke
  \/ ListenerReturn
  \/ EmitEnd
  \/ \E e \in EmitterIds, l \in AssertOffCallbacks : AddListenerAssertOff(e, l)
  \/ \E e \in EmitterIds, l \in AssertOffCallbacks : RemoveListenerAssertOff(e, l)
  \/ \E e \in EmitterIds : RemoveAllListenersBounded(e)
  \/ \E e \in EmitterIds : Dispose(e)
  \/ ListenerThrows

AssertOffSpec == Init /\ [][AssertOffNext]_vars

----------------------------------------------------------------------------
(* Claims about the Emitter with assertions off, disposal and failing       *)
(* listeners                                                                *)

\* The step is a call of the Emitter's method op: calls other than emit leave
\* the depth of the call stack as it is
EmitterCallStep(op) == lastCall'.op = op /\ Len(stack') = Len(stack)

\* No listener is in the Emitter's list twice
NoDuplicateListener ==
  \A e \in EmitterIds : \A j \in DOMAIN listeners[e] : \A k \in DOMAIN listeners[e] :
    listeners[e][j] = listeners[e][k] => j = k

\* C25: addListener of a listener that is registered fails with
\* DuplicateListener and changes neither the list nor the frames, and so no
\* list has a listener twice.  Violated: with assert not set the test is
\* skipped and the listener is pushed again.
C25_AddListenerRejectsDuplicate ==
  /\ [][(EmitterCallStep("addListener") /\ lastCall'.lis \in Range(listeners[lastCall'.p]))
          => /\ lastCall'.err = "DuplicateListener"
             /\ UNCHANGED <<listeners, listenersToEmitTo>>]_vars
  /\ []NoDuplicateListener

\* C26: removeListener of a registered listener removes that listener (its
\* first entry) and keeps the others in their order; of a listener that is not
\* registered it fails with UnknownListener and changes neither the list nor
\* the frames.  Violated: with assert not set the index -1 goes to splice,
\* which removes the last listener of the list, and no error is raised.
C26_RemoveListenerRemovesOnlyItsArgument ==
  [][EmitterCallStep("removeListener")
       => LET e == lastCall'.p
              l == lastCall'.lis
          IN IF l \in Range(listeners[e])
             THEN listeners'[e] = Splice(listeners[e], IndexOf(listeners[e], l))
             ELSE /\ lastCall'.err = "UnknownListener"
                  /\ UNCHANGED <<listeners, listenersToEmitTo>>]_vars

\* C27: dispose empties the listener list, and an emission in progress keeps
\* the sequence it began with and invokes all of it.  Violated: dispose cuts
\* the live array short without defending the frames, so an emission whose
\* frame is the live array ends without invoking its remaining listeners.
C27_DisposeKeepsEmissionInProgress ==
  /\ [][EmitterCallStep("dispose") => listeners'[lastCall'.p] = <<>>]_vars
  /\ [](\A k \in EmitIdx :
          /\ FrameOf(k) = stack[k].start
          /\ Complete(k) => stack[k].called = stack[k].start)

\* The frames of emitter e from the bottom up to the last defended one are all
\* defended
DefendedPrefix(e) ==
  \A j \in DOMAIN listenersToEmitTo[e] : \A k \in DOMAIN listenersToEmitTo[e] :
    (j < k /\ listenersToEmitTo[e][k].defended) => listenersToEmitTo[e][j].defended

\* C28: in listenersToEmitTo every frame below a defended frame is defended,
\* and a frame that is not defended is the live array and no copy; so
\* defendCallbacks, which stops at the first defended frame it meets, leaves no
\* frame undefended.
C28_DefendedFramesFormPrefix ==
  /\ [](\A e \in EmitterIds :
          /\ DefendedPrefix(e)
          /\ \A k \in DOMAIN listenersToEmitTo[e] :
               ~listenersToEmitTo[e][k].defended => listenersToEmitTo[e][k] = LiveFrame)
  /\ [][\A e \in EmitterIds :
          (listenersToEmitTo'[e] # listenersToEmitTo[e]
             /\ Len(listenersToEmitTo'[e]) = Len(listenersToEmitTo[e]))
            => \A k \in DOMAIN listenersToEmitTo'[e] : listenersToEmitTo'[e][k].defended]_vars

\* C28's case: under a frame that is not defended there is a defended frame,
\* and the list has changed since that one was defended
C28_Witness ==
  \E e \in EmitterIds :
    /\ Len(listenersToEmitTo[e]) = 2
    /\ listenersToEmitTo[e][1].defended
    /\ ~listenersToEmitTo[e][2].defended
    /\ listenersToEmitTo[e][1].list # listeners[e]
    /\ Len(stack) >= 3

\* C29: listenersToEmitTo has as many frames as there are emissions in progress
\* on the Emitter, so none when no emission is in progress.  Violated: emit
\* pops its frame after the loop and not in a finally; an exception of a
\* listener leaves the emit with its frame still in listenersToEmitTo.
C29_FramesMatchEmissionsInProgress ==
  \A e \in EmitterIds :
    Len(listenersToEmitTo[e]) = Cardinality({k \in EmitIdx : stack[k].e = e})

====
